---- MODULE Spec2Model ----
(***************************************************************************)
(* Model of the sklvq training core:                                       *)
(*   solvers/steepest_gradient_descent.py   SteepestGradientDescent.solve  *)
(*   solvers/__init__.py                    ALIASES, import_from_string    *)
(*   objectives/_generalized_learning_objective.py                         *)
(*   distances/adaptive_squared_nan_euclidean.py                           *)
(*   activations/_identity.py                                              *)
(*                                                                         *)
(* Numbers are exact rationals <<numerator, denominator>>; NaN is <<0,0>>  *)
(* and +inf is <<1,0>>.  In the solver the parameter vectors are symbolic  *)
(* terms (tagged tuples), so that two vectors are equal exactly when they  *)
(* were computed the same way from the same inputs.                        *)
(***************************************************************************)
EXTENDS Integers, Sequences, FiniteSets, TLC

\* ------------------------------------------------------------------ bounds

\* Largest max_runs of a SteepestGradientDescent instance.
MaxRuns == 2
\* Largest number of samples (labels.size) handed to solve.
MaxSamples == 2
\* Largest number of samples handed to a solve of a single run.
MaxDataset == 4
\* Largest coordinate of a sample handed to the objective or the distance.
MaxCoord == 1

\* ------------------------------------------------------- rational numbers

Abs(x) == IF x < 0 THEN -x ELSE x

RECURSIVE GCD(_, _)
GCD(a, b) == IF b = 0 THEN a ELSE GCD(b, a % b)

Sign(x) == IF x < 0 THEN -1 ELSE IF x = 0 THEN 0 ELSE 1

\* Op(a, b) with both arguments evaluated once, before Op is.
Strict2(Op(_, _), a, b) == CHOOSE r \in {Op(x, y) : x \in {a}, y \in {b}} : TRUE

\* The canonical form of n/d: lowest terms, positive denominator; x/0 is
\* +inf, -inf or NaN as in IEEE arithmetic.
Canonical(n, d) ==
    IF d = 0 THEN <<Sign(n), 0>>
    ELSE LET g == Strict2(GCD, Abs(n), Abs(d))
         IN  <<(Sign(d) * n) \div g, Abs(d) \div g>>

Rat(n, d) == Strict2(Canonical, n, d)

RInt(k) == <<k, 1>>
NaN == <<0, 0>>
Inf == <<1, 0>>
IsNaN(x) == x[1] = 0 /\ x[2] = 0
IsFinite(x) == x[2] # 0

Add(x, y) ==
    IF IsNaN(x) \/ IsNaN(y) THEN NaN
    ELSE IF ~IsFinite(x) THEN (IF ~IsFinite(y) /\ y # x THEN NaN ELSE x)
    ELSE IF ~IsFinite(y) THEN y
    ELSE LET g == Strict2(GCD, x[2], y[2])
         IN  Rat(x[1] * (y[2] \div g) + y[1] * (x[2] \div g),
                 (x[2] \div g) * y[2])

RAdd(x, y) == Strict2(Add, x, y)

RNeg(x) == <<-x[1], x[2]>>

RSub(x, y) == RAdd(x, RNeg(y))

Mul(x, y) ==
    IF IsNaN(x) \/ IsNaN(y) THEN NaN
    ELSE IF ~IsFinite(x) \/ ~IsFinite(y) THEN <<Sign(x[1]) * Sign(y[1]), 0>>
    ELSE IF x[1] = 0 \/ y[1] = 0 THEN RInt(0)
    ELSE LET g == Strict2(GCD, Abs(x[1]), y[2])
             h == Strict2(GCD, Abs(y[1]), x[2])
         IN  Rat((x[1] \div g) * (y[1] \div h), (x[2] \div h) * (y[2] \div g))

RMul(x, y) == Strict2(Mul, x, y)

Div(x, y) ==
    IF IsNaN(x) \/ IsNaN(y) THEN NaN
    ELSE IF ~IsFinite(y) THEN (IF IsFinite(x) THEN RInt(0) ELSE NaN)
    ELSE IF ~IsFinite(x) THEN (IF y[1] < 0 THEN RNeg(x) ELSE x)
    ELSE IF y[1] = 0 THEN <<Sign(x[1]), 0>>
    ELSE Mul(x, <<Sign(y[1]) * y[2], Abs(y[1])>>)

RDiv(x, y) == Strict2(Div, x, y)

\* x < y; every comparison with NaN is false.
Less(x, y) ==
    IF IsNaN(x) \/ IsNaN(y) THEN FALSE
    ELSE IF ~IsFinite(x) THEN x[1] < 0 /\ y # x
    ELSE IF ~IsFinite(y) THEN y[1] > 0
    ELSE x[1] * y[2] < y[1] * x[2]

RLess(x, y) == Strict2(Less, x, y)

\* ------------------------------------------------------------------ state

VARIABLES
    self,                 \* the solver: max_runs, batch_size, step_size, callback
    n_samples,            \* labels.size = data.shape[0]
    model,                \* the model: its committed parameters
    pc,                   \* position of solve
    i_run,                \* loop variable of the run loop
    shuffled_indices,     \* sample order of the current run
    batches,              \* the run's batches (sequences of sample indices)
    step_size,            \* annealed step size of the current run
    i_batch,              \* loop variable of the batch loop
    objective_gradient,   \* last scaled gradient (None before the first batch)
    new_model_variables,  \* last updated variables (unbound before first batch)
    hist,                 \* history: every batch processed and callback invoked
    call,                 \* arguments of a call of the objective or a strategy
    result                \* what that call returned

solverVars == <<self, n_samples, model, pc, i_run, shuffled_indices, batches,
                step_size, i_batch, objective_gradient, new_model_variables,
                hist>>

callVars == <<call, result>>

vars == <<self, n_samples, model, pc, i_run, shuffled_indices, batches,
          step_size, i_batch, objective_gradient, new_model_variables, hist,
          call, result>>

\* Python's None, and a local that is not bound yet.
None == <<"None">>
Unbound == <<"unbound">>

\* No call made, no result returned yet.
NoCall == [fn |-> "none"]

\* -------------------------------------------------- the model collaborator

\* The parameters the model is constructed with.
InitialParams == <<"params0">>

\* model._to_variables: the flat vector of a parameter set.
ToVariables(params) ==
    IF params[1] = "to_params" THEN params[2] ELSE <<"to_variables", params>>

\* model._to_params: the parameter set of a flat vector.
ToParams(variables) ==
    IF variables[1] = "to_variables" THEN variables[2]
    ELSE <<"to_params", variables>>

\* model._get_model_params()
GetModelParams(m) == m.params

\* model._set_model_params(params)
SetModelParams(m, params) == [m EXCEPT !.params = params]

\* ------------------------------------------------------------ the solver

\* A range that includes its stop.
RECURSIVE RangeInclusive(_, _, _)
RangeInclusive(start, stop, step) ==
    IF start > stop THEN <<>>
    ELSE <<start>> \o RangeInclusive(start + step, stop, step)

\* range(start, stop, step) for step > 0, as a sequence.
RECURSIVE Range(_, _, _)
Range(start, stop, step) ==
    IF start >= stop THEN <<>>
    ELSE <<start>> \o Range(start + step, stop, step)

\* ary[lo:hi] of a sequence indexed from 0 in the source.
Slice(ary, lo, hi) == SubSeq(ary, lo + 1, hi)

\* numpy.array_split(ary, indices): ary[:i1], ary[i1:i2], ..., ary[ik:].
RECURSIVE SplitFrom(_, _, _)
SplitFrom(ary, lo, indices) ==
    IF indices = <<>> THEN <<Slice(ary, lo, Len(ary))>>
    ELSE <<Slice(ary, lo, Head(indices))>>
         \o SplitFrom(ary, Head(indices), Tail(indices))

ArraySplit(ary, indices) == SplitFrom(ary, 0, indices)

\* All orders of the indices 0 .. n-1: what sklearn.utils.shuffle can return.
Permutations0(n) ==
    {p \in [1..n -> 0..(n - 1)] : \A i, j \in 1..n : p[i] = p[j] => i = j}

\* batch_size as solve uses it: a size <= 0 means the whole dataset.
EffectiveBatchSize(bs, n) == IF bs <= 0 THEN n ELSE bs

\* The batches of a run.
MakeBatches(shuffled, bs, n) ==
    ArraySplit(shuffled, Range(EffectiveBatchSize(bs, n), n,
                               EffectiveBatchSize(bs, n)))

\* A step size annealed by the run index alone, the budget forgotten.
AnnealedStepSizeNoBudget(base, i, max_runs) ==
    RDiv(base, RAdd(RInt(1), RInt(i)))

\* The annealed step size of run i.
AnnealedStepSize(base, i, max_runs) ==
    RDiv(base, RAdd(RInt(1), RDiv(RInt(i), RInt(max_runs))))

\* self.objective(variables, model, data, labels): the cost, as a term over
\* the parameters the model holds and the samples it is evaluated on.
ObjectiveCall(variables, m, samples) == <<"objective", m.params, samples>>

\* self.objective.gradient(variables, model, batch, batch_labels).
ObjectiveGradientCall(variables, m, samples) == <<"gradient", m.params, samples>>

\* self.multiply_model_params(step_size, gradient in params form).
MultiplyModelParams(step, gradient_params) == <<"mul", step, gradient_params>>

\* model_variables - objective_gradient
Subtract(variables, gradient) == <<"sub", variables, gradient>>

\* data, labels: the full dataset, in its own order.
FullData == [k \in 1..n_samples |-> k - 1]

\* self.create_state(STATE_KEYS, ...): missing keys are None.
CreateState(variables, nit, fun, jac, step) ==
    [variables |-> variables, nit |-> nit, fun |-> fun, jac |-> jac,
     step_size |-> step]

\* Where the callback may run: the value a callback returns is its choice.
CallbackEvent(state, ret) ==
    [ev |-> "callback", state |-> state, ret |-> ret, at_run |-> i_run,
     at_batch |-> i_batch, n_batches |-> Len(batches), params |-> model.params,
     pc |-> pc]

BatchEvent(read, samples, jac, committed) ==
    [ev |-> "batch", run |-> i_run, batch |-> i_batch,
     n_batches |-> Len(batches), read |-> read, samples |-> samples,
     step_size |-> step_size, jac |-> jac, committed |-> committed]

\* A solve that ignores what the callback returns.
CallbackOutcomeIgnored(ret) == "run_loop"

\* "if self.callback(model, state): return model": where solve goes next.
CallbackOutcome(ret) == IF ret THEN "returned" ELSE "run_loop"

\* The run loop "for i_run in range(0, self.max_runs)" has a next run.
RunLoopContinues == i_run + 1 < self.max_runs

\* A batch loop left after its first batch.
RunFinishedEarly == i_batch >= 1

\* The batch loop "for i_batch in range(0, len(batches))" is exhausted.
RunFinished == i_batch >= Len(batches)

\* solve, lines 61-70: the initial callback.
InitialCallback ==
    /\ pc = "start"
    /\ IF self.callback # "none"
       THEN \E ret \in BOOLEAN :
              LET variables == ToVariables(GetModelParams(model))
                  state == CreateState(variables, 0,
                                       ObjectiveCall(variables, model, FullData),
                                       None, None)
              IN  /\ hist' = Append(hist, CallbackEvent(state, ret))
                  /\ pc' = CallbackOutcome(ret)
       ELSE /\ hist' = hist
            /\ pc' = "run_loop"
    /\ UNCHANGED <<self, n_samples, model, i_run, shuffled_indices, batches,
                   step_size, i_batch, objective_gradient, new_model_variables>>
    /\ UNCHANGED callVars

\* The run loop's head, lines 74-94: next i_run, shuffle, split, step size.
BeginRun ==
    /\ pc = "run_loop"
    /\ RunLoopContinues
    /\ i_run' = i_run + 1
    /\ \E shuffled \in Permutations0(n_samples) :
         /\ shuffled_indices' = shuffled
         /\ batches' = MakeBatches(shuffled, self.batch_size, n_samples)
    /\ step_size' = AnnealedStepSize(self.step_size, i_run + 1, self.max_runs)
    /\ i_batch' = 0
    /\ pc' = "batch_loop"
    /\ UNCHANGED <<self, n_samples, model, objective_gradient,
                   new_model_variables, hist>>
    /\ UNCHANGED callVars

\* The variables read once, before the loops, instead of for every batch.
ReadStaleVariables == ToVariables(InitialParams)

\* The variables one batch reads: the parameters the model holds now.
ReadModelVariables == ToVariables(GetModelParams(model))

\* One pass of the batch loop, lines 96-122.
ProcessBatch ==
    /\ pc = "batch_loop"
    /\ ~RunFinished
    /\ LET batch == batches[i_batch + 1]
           model_variables == ReadModelVariables
           gradient == ToParams(ObjectiveGradientCall(model_variables, model, batch))
           scaled == ToVariables(MultiplyModelParams(step_size, gradient))
           updated == Subtract(model_variables, scaled)
       IN  /\ objective_gradient' = scaled
           /\ new_model_variables' = updated
           /\ model' = SetModelParams(model, ToParams(updated))
           /\ hist' = Append(hist, BatchEvent(model_variables, batch, scaled,
                                              model'.params))
    /\ i_batch' = i_batch + 1
    /\ UNCHANGED <<self, n_samples, pc, i_run, shuffled_indices, batches,
                   step_size>>
    /\ UNCHANGED callVars

\* An iteration index that counts the finished runs.
AfterRunNitCountingRuns == i_run + 1

\* nit=i_run, line 128: the iteration index of the after-run state.
AfterRunNit == i_run

\* After the last batch of a run, lines 124-134: the after-run callback.
EndRun ==
    /\ pc = "batch_loop"
    /\ RunFinished
    /\ IF self.callback # "none"
       THEN \E ret \in BOOLEAN :
              LET state == CreateState(new_model_variables, AfterRunNit,
                                       ObjectiveCall(new_model_variables, model,
                                                     FullData),
                                       objective_gradient, step_size)
              IN  /\ hist' = Append(hist, CallbackEvent(state, ret))
                  /\ pc' = CallbackOutcome(ret)
       ELSE /\ hist' = hist
            /\ pc' = "run_loop"
    /\ UNCHANGED <<self, n_samples, model, i_run, shuffled_indices, batches,
                   step_size, i_batch, objective_gradient, new_model_variables>>
    /\ UNCHANGED callVars

\* The run loop is exhausted, line 136: return model.
ReturnModel ==
    /\ pc = "run_loop"
    /\ ~RunLoopContinues
    /\ pc' = "returned"
    /\ UNCHANGED <<self, n_samples, model, i_run, shuffled_indices, batches,
                   step_size, i_batch, objective_gradient, new_model_variables,
                   hist>>
    /\ UNCHANGED callVars

\* The base step sizes tried: the default 0.2, a larger one, and two that are
\* not positive.
StepSizes == {Rat(1, 5), Rat(2, 1), Rat(0, 1), Rat(-1, 2)}

\* The batch sizes tried: not positive, smaller than, equal to and larger
\* than the dataset.
BatchSizes == (-1)..(MaxSamples + 1)

Solvers ==
    [max_runs : 0..MaxRuns, batch_size : BatchSizes, step_size : StepSizes,
     callback : {"none", "set"}]

Init ==
    /\ self \in Solvers
    /\ n_samples \in 1..MaxSamples
    /\ model = [params |-> InitialParams]
    /\ pc = "start"
    /\ i_run = -1
    /\ shuffled_indices = <<>>
    /\ batches = <<>>
    /\ step_size = Unbound
    /\ i_batch = 0
    /\ objective_gradient = None
    /\ new_model_variables = Unbound
    /\ hist = <<>>
    /\ call = NoCall
    /\ result = NoCall

Next ==
    \/ InitialCallback
    \/ BeginRun
    \/ ProcessBatch
    \/ EndRun
    \/ ReturnModel

Spec == Init /\ [][Next]_vars

\* solve with the default step size, no callback and a single run, over
\* larger datasets.
LargeDataInit ==
    /\ self \in [max_runs : {1}, batch_size : (-1)..(MaxDataset + 1),
                 step_size : {Rat(1, 5)}, callback : {"none"}]
    /\ n_samples \in 1..MaxDataset
    /\ model = [params |-> InitialParams]
    /\ pc = "start"
    /\ i_run = -1
    /\ shuffled_indices = <<>>
    /\ batches = <<>>
    /\ step_size = Unbound
    /\ i_batch = 0
    /\ objective_gradient = None
    /\ new_model_variables = Unbound
    /\ hist = <<>>
    /\ call = NoCall
    /\ result = NoCall

LargeDataSpec == LargeDataInit /\ [][Next]_vars

\* ------------------------------------------- vectors, matrices, the model

\* The element of a one-element set.  The({e(v) : v \in {x}}) is e(x) with x
\* evaluated once, as an assignment to a local evaluates its right side once.
The(S) == CHOOSE r \in S : TRUE

RECURSIVE SumOf(_)
SumOf(xs) == IF xs = <<>> THEN RInt(0) ELSE RAdd(Head(xs), SumOf(Tail(xs)))

\* np.sum / the sums of a dot product.
RSum(xs) == The({SumOf(v) : v \in {xs}})

\* u.dot(v) of two vectors.
Dot(u, v) == RSum([k \in 1..Len(u) |-> RMul(u[k], v[k])])

\* x[np.isnan(x)] = 0 on one element.
ZeroNaN(x) == IF IsNaN(x) THEN RInt(0) ELSE x

\* The number of entries of a matrix (ndarray.size).
Size(matrix) == IF matrix = <<>> THEN 0 ELSE Len(matrix) * Len(matrix[1])

\* The rows of a matrix that a boolean mask selects (data[mask, :]).
SelectRows(rows, mask) ==
    LET picked == SelectSeq([i \in 1..Len(rows) |-> i], LAMBDA i : mask[i])
    IN  [w \in 1..Len(picked) |-> rows[picked[w]]]

\* model.get_model_params(): (prototypes, omega).
ModelParams(m) == <<m.prototypes_, m.omega_>>

\* model.get_variables().size: prototypes (row-major) then omega (row-major).
VariablesSize(m) == Size(m.prototypes_) + Size(m.omega_)

\* ------------------------------------- distances/adaptive_squared_nan_euclidean

\* np.dot(omega.T, omega)
LambdaMatrix(omega) ==
    [a \in 1..Len(omega[1]) |->
       [b \in 1..Len(omega[1]) |->
          RSum([r \in 1..Len(omega) |-> RMul(omega[r][a], omega[r][b])])]]

\* A difference in which a missing feature stays NaN.
MetricDifferenceKeepNaN(sample, prototype) ==
    [k \in 1..Len(sample) |-> RSub(sample[k], prototype[k])]

\* difference = sample - prototype; difference[np.isnan(difference)] = 0
MetricDifference(sample, prototype) ==
    [k \in 1..Len(sample) |-> ZeroNaN(RSub(sample[k], prototype[k]))]

\* _adaptive_squared_nan_euclidean: difference.dot(lambda_matrix).dot(difference)
AdaptiveSquaredNanEuclideanMetric(sample, prototype, lambda_matrix) ==
    The({ Dot([b \in 1..Len(difference) |->
                 RSum([a \in 1..Len(difference) |->
                         RMul(difference[a], lambda_matrix[a][b])])],
              difference)
          : difference \in {MetricDifference(sample, prototype)} })

\* sklearn's pairwise_distances with a callable metric: metric(X[i], Y[j]).
PairwiseDistances(X, Y, lambda_matrix) ==
    [i \in 1..Len(X) |->
       [j \in 1..Len(Y) |->
          AdaptiveSquaredNanEuclideanMetric(X[i], Y[j], lambda_matrix)]]

\* "** 2" on the result of pairwise_distances.
SquareElementwise(pairwise) ==
    [i \in 1..Len(pairwise) |->
       [j \in 1..Len(pairwise[i]) |-> RMul(pairwise[i][j], pairwise[i][j])]]

\* AdaptiveSquaredNanEuclidean.__call__: pairwise_distances(...) ** 2
Distance(data, m) ==
    The({ The({ SquareElementwise(pairwise)
                : pairwise \in {PairwiseDistances(data, m.prototypes_,
                                                  lambda_matrix)} })
          : lambda_matrix \in {LambdaMatrix(m.omega_)} })

\* _prototype_gradient
PrototypeGradient(data, prototype, omega) ==
    The({ [j \in 1..Len(data) |->
             [k \in 1..Len(prototype) |->
                RSum([i \in 1..Len(prototype) |->
                        RMul(dl[1][j][i], dl[2][i][k])])]]
          : dl \in {<<[j \in 1..Len(data) |->
                         [i \in 1..Len(prototype) |->
                            ZeroNaN(RMul(RInt(-2),
                                         RSub(data[j][i], prototype[i])))]],
                      LambdaMatrix(omega)>>} })

\* difference = data - prototype; difference[np.isnan(difference)] = 0
OmegaGradientDifference(data, prototype) ==
    [j \in 1..Len(data) |->
       [k \in 1..Len(prototype) |-> ZeroNaN(RSub(data[j][k], prototype[k]))]]

\* _omega_gradient, reshaped to (num_samples, omega.size)
OmegaGradient(data, prototype, omega) ==
    The({ The({ [j \in 1..Len(data) |->
                   [c \in 1..Size(omega) |->
                      RMul(scaled_omega[((c - 1) \div Len(prototype)) + 1][j],
                           RMul(RInt(2),
                                difference[j][((c - 1) % Len(prototype)) + 1]))]]
                : scaled_omega \in
                    {[i \in 1..Len(omega) |->
                        [j \in 1..Len(data) |-> Dot(omega[i], difference[j])]]} })
          : difference \in {OmegaGradientDifference(data, prototype)} })

\* A slice start that forgets the width of a prototype.
PrototypeSliceStartUnscaled(i_prototype, num_features) == i_prototype

\* ip_start = i_prototype * num_features
PrototypeSliceStart(i_prototype, num_features) == i_prototype * num_features

\* The rows of distance_gradient, filled from the two partial gradients.
GradientRows(num_samples, num_prototype_entries, num_omega_entries, ip_start, ip_end, wrt_prototype, wrt_omega) ==
    [j \in 1..num_samples |->
       [c \in 1..(num_prototype_entries + num_omega_entries) |->
          IF c - 1 >= num_prototype_entries
          THEN wrt_omega[j][c - num_prototype_entries]
          ELSE IF c - 1 >= ip_start /\ c - 1 < ip_end
               THEN wrt_prototype[j][c - ip_start]
               ELSE RInt(0)]]

\* AdaptiveSquaredNanEuclidean.gradient; i_prototype counts from 0.
DistanceGradient(data, m, i_prototype) ==
    LET prototypes == ModelParams(m)[1]
        omega == ModelParams(m)[2]
        num_features == Len(data[1])
        ip_start == PrototypeSliceStart(i_prototype, num_features)
    IN  The({ GradientRows(Len(data), Size(prototypes), Size(omega),
                           ip_start, ip_start + num_features, g[1], g[2])
              : g \in {<<PrototypeGradient(data, prototypes[i_prototype + 1],
                                           omega),
                         OmegaGradient(data, prototypes[i_prototype + 1],
                                       omega)>>} })

\* -------------------------------------------------- activations/_identity

\* Identity.__call__
Identity(x) == x

\* Identity.gradient: np.ones_like(x)
IdentityGradient(x) == RInt(1)

\* ------------------------------------ the relative-distance discriminant

\* (d_same - d_diff) / (d_same + d_diff)
Discriminant(dist_same, dist_diff) ==
    RDiv(RSub(dist_same, dist_diff), RAdd(dist_same, dist_diff))

\* The partial derivative with respect to d_same (same branch) or d_diff;
\* 0 where d_same + d_diff = 0.
DiscriminantGradient(dist_same, dist_diff, is_same_branch) ==
    The({ IF total = RInt(0) THEN RInt(0)
          ELSE IF is_same_branch
               THEN RDiv(RMul(RInt(2), dist_diff), RMul(total, total))
               ELSE RDiv(RMul(RInt(-2), dist_same), RMul(total, total))
          : total \in {RAdd(dist_same, dist_diff)} })

\* --------------------------- objectives/_generalized_learning_objective

\* The smaller of two numbers, the first on a tie or a NaN.
RMin2(x, y) == IF RLess(y, x) THEN y ELSE x

RECURSIVE MinOf(_)
MinOf(xs) ==
    IF Len(xs) = 1 THEN xs[1]
    ELSE The({RMin2(xs[1], rest) : rest \in {MinOf(Tail(xs))}})

\* ndarray.min along a row.
RMin(xs) == The({MinOf(v) : v \in {xs}})

\* argmin of a row: the first index (from 0) that holds the minimum.
ArgMin(xs) ==
    The({ (CHOOSE j \in 1..Len(xs) :
              /\ xs[j] = lowest
              /\ \A l \in 1..(j - 1) : xs[l] # lowest) - 1
          : lowest \in {RMin(xs)} })

\* A minimum taken over every prototype, the mask ignored.
FindMinUnmasked(indices, distances) ==
    [min |-> [i \in 1..Len(distances) |-> RMin(distances[i])],
     argmin |-> [i \in 1..Len(distances) |-> ArgMin(distances[i])]]

\* _find_min: np.where(indices, distances, np.inf), then min and argmin per row
FindMin(indices, distances) ==
    The({ [min |-> [i \in 1..Len(dist_temp) |-> RMin(dist_temp[i])],
           argmin |-> [i \in 1..Len(dist_temp) |-> ArgMin(dist_temp[i])]]
          : dist_temp \in
              {[i \in 1..Len(distances) |->
                  [j \in 1..Len(distances[i]) |->
                     IF indices[i][j] THEN distances[i][j] ELSE Inf]]} })

\* ii_same: for each sample, the prototypes with the sample's label.
SameLabelMask(labels, prototypes_labels) ==
    [i \in 1..Len(labels) |->
       [j \in 1..Len(prototypes_labels) |-> labels[i] = prototypes_labels[j]]]

\* ii_diff = ~ii_same
Negate(mask) ==
    [i \in 1..Len(mask) |-> [j \in 1..Len(mask[i]) |-> ~mask[i][j]]]

\* The four arrays _compute_distance returns.
WinnerArrays(same, diff) ==
    [dist_same |-> same.min, dist_diff |-> diff.min,
     i_dist_same |-> same.argmin, i_dist_diff |-> diff.argmin]

\* _compute_distance
ComputeDistance(data, labels, m) ==
    The({ The({ WinnerArrays(FindMin(ii_same, distances),
                             FindMin(Negate(ii_same), distances))
                : ii_same \in {SameLabelMask(labels, m.prototypes_labels_)} })
          : distances \in {Distance(data, m)} })

\* GeneralizedLearningObjective.__call__
ObjectiveValue(data, labels, m) ==
    The({ RSum([i \in 1..Len(data) |->
                  Identity(Discriminant(cd.dist_same[i], cd.dist_diff[i]))])
          : cd \in {ComputeDistance(data, labels, m)} })

\* model.add_partial_gradient(gradient_buffer, contribution, i_prototype):
\* the contribution is added at the prototype's offset and at omega's.
AddPartialGradient(m, gradient_buffer, contribution, i_prototype) ==
    LET num_features == Len(m.prototypes_[1])
        ip_start == i_prototype * num_features
        io_start == Size(m.prototypes_)
    IN  [c \in 1..Len(gradient_buffer) |->
           IF c - 1 >= io_start
              \/ (c - 1 >= ip_start /\ c - 1 < ip_start + num_features)
           THEN RAdd(gradient_buffer[c], contribution[c])
           ELSE gradient_buffer[c]]

\* ii_winner_same / ii_winner_diff: i_prototype == i_dist_same / i_dist_diff
WinnerMask(cd, i_prototype, is_same_branch) ==
    [i \in 1..Len(cd.i_dist_same) |->
       i_prototype = (IF is_same_branch THEN cd.i_dist_same[i]
                      ELSE cd.i_dist_diff[i])]

\* (activation_gradient * discriminant_gradient).dot(distance_gradient)
Contribution(cd, score, ii_winner, distance_gradient, is_same_branch, size) ==
    The({ [c \in 1..size |->
             RSum([w \in 1..Len(weight) |->
                     RMul(weight[w], distance_gradient[w][c])])]
          : weight \in
              {[w \in 1..Len(SelectRows(score, ii_winner)) |->
                  RMul(IdentityGradient(SelectRows(score, ii_winner)[w]),
                       DiscriminantGradient(
                           SelectRows(cd.dist_same, ii_winner)[w],
                           SelectRows(cd.dist_diff, ii_winner)[w],
                           is_same_branch))]} })

\* One branch of the loop body of gradient: the update for the samples of
\* which i_prototype is the winner (same branch or different branch).
BranchUpdate(data, m, cd, score, gradient_buffer, i_prototype, is_same_branch) ==
    The({ IF \E i \in 1..Len(ii_winner) : ii_winner[i]
          THEN The({ The({ AddPartialGradient(m, gradient_buffer, contribution,
                                              i_prototype)
                           : contribution \in
                               {Contribution(cd, score, ii_winner,
                                             distance_gradient, is_same_branch,
                                             VariablesSize(m))} })
                     : distance_gradient \in
                         {DistanceGradient(SelectRows(data, ii_winner), m,
                                           i_prototype)} })
          ELSE gradient_buffer
          : ii_winner \in {WinnerMask(cd, i_prototype, is_same_branch)} })

\* for i_prototype in range(i_prototype, model.prototypes_labels_.size)
RECURSIVE PrototypeLoop(_, _, _, _, _, _)
PrototypeLoop(data, m, cd, score, gradient_buffer, i_prototype) ==
    IF i_prototype >= Len(m.prototypes_labels_) THEN gradient_buffer
    ELSE The({ The({ PrototypeLoop(data, m, cd, score, after_diff,
                                   i_prototype + 1)
                     : after_diff \in
                         {BranchUpdate(data, m, cd, score, after_same,
                                       i_prototype, FALSE)} })
               : after_same \in
                   {BranchUpdate(data, m, cd, score, gradient_buffer,
                                 i_prototype, TRUE)} })

\* GeneralizedLearningObjective.gradient
ObjectiveGradient(data, labels, m) ==
    The({ The({ PrototypeLoop(data, m, cd, discriminant_score,
                              [c \in 1..VariablesSize(m) |-> RInt(0)], 0)
                : discriminant_score \in
                    {[i \in 1..Len(data) |->
                        Discriminant(cd.dist_same[i], cd.dist_diff[i])]} })
          : cd \in {ComputeDistance(data, labels, m)} })

\* ------------------------------------------- in-place writes of the calls

\* What a local name is bound to when it is written in place: an argument of
\* the call ("data", "labels", "prototypes_", "omega_") or an array the
\* function allocated itself.
Fresh == "fresh"

\* A sample matrix whose name is bound to the data argument while its NaN
\* entries are zeroed.
DistanceWritesAliasingData ==
    {[name |-> "difference", bound_to |-> "data", write |-> "zero_nan"]}

\* _adaptive_squared_nan_euclidean: difference = sample - prototype is a new
\* array; difference[np.isnan(difference)] = 0 writes into it.
DistanceWrites ==
    {[name |-> "difference", bound_to |-> Fresh, write |-> "zero_nan"]}

\* AdaptiveSquaredNanEuclidean.gradient: distance_gradient = np.zeros(...) is
\* sliced and assigned; the differences of _prototype_gradient and
\* _omega_gradient are new arrays.
DistanceGradientWrites ==
    {[name |-> "difference", bound_to |-> Fresh, write |-> "zero_nan"],
     [name |-> "distance_gradient", bound_to |-> Fresh, write |-> "assign"]}

\* _compute_distance and __call__ write nothing beyond what the distance does.
ComputeDistanceWrites == DistanceWrites
ObjectiveWrites == ComputeDistanceWrites

\* GeneralizedLearningObjective.gradient: gradient_buffer = np.zeros(...) is
\* the buffer add_partial_gradient accumulates into.
ObjectiveGradientWrites ==
    ComputeDistanceWrites \cup DistanceGradientWrites
        \cup {[name |-> "gradient_buffer", bound_to |-> Fresh, write |-> "add"]}

\* An array after a write in place.
Written(value, write) ==
    IF write = "zero_nan"
    THEN [i \in 1..Len(value) |->
            [k \in 1..Len(value[i]) |-> ZeroNaN(value[i][k])]]
    ELSE <<"overwritten", write>>

\* An argument after the writes of a call: changed when a written name is
\* bound to it.
After(argument, value, writes) ==
    IF \E w \in writes : w.bound_to = argument
    THEN Written(value, (CHOOSE w \in writes : w.bound_to = argument).write)
    ELSE value

\* The arguments (model, data, labels) as the call leaves them.
ArgumentsAfter(c, writes) ==
    [data |-> After("data", c.data, writes),
     labels |-> After("labels", c.labels, writes),
     model |-> [prototypes_ |-> After("prototypes_", c.model.prototypes_, writes),
                prototypes_labels_ |-> c.model.prototypes_labels_,
                omega_ |-> After("omega_", c.model.omega_, writes)]]

\* ---------------------------------- calls of the objective and the distance

IntMatrix(rows) == [i \in 1..Len(rows) |-> [k \in 1..Len(rows[i]) |-> RInt(rows[i][k])]]

\* The models the calls are made on: two prototypes on a line, three
\* prototypes in the plane under a non-symmetric omega, two under a
\* rectangular omega, and two of one class under the identity.
Models ==
    { [prototypes_ |-> IntMatrix(<<<<2>>, <<-1>>>>),
       prototypes_labels_ |-> <<0, 1>>,
       omega_ |-> IntMatrix(<<<<1>>>>)],
      [prototypes_ |-> IntMatrix(<<<<0, 0>>, <<1, 1>>, <<1, 0>>>>),
       prototypes_labels_ |-> <<0, 1, 1>>,
       omega_ |-> IntMatrix(<<<<1, 1>>, <<0, 1>>>>)],
      [prototypes_ |-> IntMatrix(<<<<1, 0>>, <<0, 1>>>>),
       prototypes_labels_ |-> <<0, 1>>,
       omega_ |-> IntMatrix(<<<<1, -1>>>>)],
      [prototypes_ |-> IntMatrix(<<<<0, 0>>, <<1, 1>>>>),
       prototypes_labels_ |-> <<0, 0>>,
       omega_ |-> IntMatrix(<<<<1, 0>>, <<0, 1>>>>)] }

\* A feature of a sample: missing, or an integer up to MaxCoord.
Features == {NaN} \cup {RInt(k) : k \in 0..MaxCoord}

\* The batches handed to a call: one or two samples with their labels.
BatchLengths == {1, 2}
Labels == {0, 1}

Calls ==
    UNION { [data : [1..n -> [1..Len(m.prototypes_[1]) -> Features]],
             labels : [1..n -> Labels],
             model : {m}] : <<n, m>> \in BatchLengths \X Models }

SolverIdle ==
    /\ self = None
    /\ n_samples = 0
    /\ model = None
    /\ pc = "idle"
    /\ i_run = -1
    /\ shuffled_indices = <<>>
    /\ batches = <<>>
    /\ step_size = Unbound
    /\ i_batch = 0
    /\ objective_gradient = None
    /\ new_model_variables = Unbound
    /\ hist = <<>>

ObjectiveInit ==
    /\ SolverIdle
    /\ call \in Calls
    /\ result = NoCall

\* model._distance(data, model)
CallDistance ==
    /\ pc = "idle" /\ result.fn = "none"
    /\ result' = [fn |-> "distance", value |-> Distance(call.data, call.model)]
    /\ call' = ArgumentsAfter(call, DistanceWrites)
    /\ UNCHANGED solverVars

\* model._distance.gradient(data, model, i_prototype)
CallDistanceGradient ==
    /\ pc = "idle" /\ result.fn = "none"
    /\ \E i_prototype \in 0..(Len(call.model.prototypes_) - 1) :
         result' = [fn |-> "distance_gradient", i_prototype |-> i_prototype,
                    value |-> DistanceGradient(call.data, call.model, i_prototype)]
    /\ call' = ArgumentsAfter(call, DistanceGradientWrites)
    /\ UNCHANGED solverVars

\* _compute_distance(data, labels, model)
CallComputeDistance ==
    /\ pc = "idle" /\ result.fn = "none"
    /\ result' = [fn |-> "compute_distance",
                  value |-> ComputeDistance(call.data, call.labels, call.model)]
    /\ call' = ArgumentsAfter(call, ComputeDistanceWrites)
    /\ UNCHANGED solverVars

\* objective(model, data, labels)
CallObjective ==
    /\ pc = "idle" /\ result.fn = "none"
    /\ result' = [fn |-> "objective",
                  value |-> ObjectiveValue(call.data, call.labels, call.model)]
    /\ call' = ArgumentsAfter(call, ObjectiveWrites)
    /\ UNCHANGED solverVars

\* objective.gradient(model, data, labels)
CallObjectiveGradient ==
    /\ pc = "idle" /\ result.fn = "none"
    /\ result' = [fn |-> "objective_gradient",
                  value |-> ObjectiveGradient(call.data, call.labels, call.model)]
    /\ call' = ArgumentsAfter(call, ObjectiveGradientWrites)
    /\ UNCHANGED solverVars

ObjectiveNext ==
    \/ CallDistance
    \/ CallDistanceGradient
    \/ CallComputeDistance
    \/ CallObjective
    \/ CallObjectiveGradient

ObjectiveSpec == ObjectiveInit /\ [][ObjectiveNext]_vars

\* A solve, or one call of the objective or the distance on its own.
FrameInit == Init \/ ObjectiveInit
FrameNext == Next \/ ObjectiveNext
FrameSpec == FrameInit /\ [][FrameNext]_vars

\* ------------------------------------------------------ solvers/__init__

\* A tag is the sequence of its characters.
LowerLetters ==
    <<"a", "b", "c", "d", "e", "f", "g", "h", "i", "j", "k", "l", "m", "n",
      "o", "p", "q", "r", "s", "t", "u", "v", "w", "x", "y", "z">>
UpperLetters ==
    <<"A", "B", "C", "D", "E", "F", "G", "H", "I", "J", "K", "L", "M", "N",
      "O", "P", "Q", "R", "S", "T", "U", "V", "W", "X", "Y", "Z">>

\* str.lower on one character and on a tag.
LowerChar(ch) ==
    IF \E i \in 1..Len(UpperLetters) : UpperLetters[i] = ch
    THEN LowerLetters[CHOOSE i \in 1..Len(UpperLetters) : UpperLetters[i] = ch]
    ELSE ch
Lower(tag) == [i \in 1..Len(tag) |-> LowerChar(tag[i])]

\* str.upper and str.capitalize, the other spellings a caller may use.
UpperChar(ch) ==
    IF \E i \in 1..Len(LowerLetters) : LowerLetters[i] = ch
    THEN UpperLetters[CHOOSE i \in 1..Len(LowerLetters) : LowerLetters[i] = ch]
    ELSE ch
Upper(tag) == [i \in 1..Len(tag) |-> UpperChar(tag[i])]
Capitalize(tag) ==
    [i \in 1..Len(tag) |-> IF i = 1 THEN UpperChar(tag[i]) ELSE LowerChar(tag[i])]

Sgd == <<"s", "g", "d">>
Bgd == <<"b", "g", "d">>
Bfgs == <<"b", "f", "g", "s">>
Lbfgs == <<"l", "b", "f", "g", "s">>
Adam == <<"a", "d", "a", "m">>
SteepestGradientDescentTag ==
    <<"s", "t", "e", "e", "p", "e", "s", "t", "-", "g", "r", "a", "d", "i",
      "e", "n", "t", "-", "d", "e", "s", "c", "e", "n", "t">>
BroydenFletcherGoldfarbShannoTag ==
    <<"b", "r", "o", "y", "d", "e", "n", "-", "f", "l", "e", "t", "c", "h",
      "e", "r", "-", "g", "o", "l", "d", "f", "a", "r", "b", "-", "s", "h",
      "a", "n", "n", "o">>
LimitedMemoryBfgsTag ==
    <<"l", "i", "m", "i", "t", "e", "d", "-", "m", "e", "m", "o", "r", "y",
      "-", "b", "f", "g", "s">>
AdaptiveMomentEstimationTag ==
    <<"a", "d", "a", "p", "t", "i", "v", "e", "-", "m", "o", "m", "e", "n",
      "t", "-", "e", "s", "t", "i", "m", "a", "t", "i", "o", "n">>
WaypointGradientDescentTag ==
    <<"w", "a", "y", "p", "o", "i", "n", "t", "-", "g", "r", "a", "d", "i",
      "e", "n", "t", "-", "d", "e", "s", "c", "e", "n", "t">>
Momentum == <<"m", "o", "m", "e", "n", "t", "u", "m">>

\* ALIASES, as a set of <<key, value>> pairs.
ALIASES ==
    { <<Sgd, SteepestGradientDescentTag>>,
      <<Bgd, SteepestGradientDescentTag>>,
      <<Bfgs, BroydenFletcherGoldfarbShannoTag>>,
      <<Lbfgs, LimitedMemoryBfgsTag>>,
      <<Adam, AdaptiveMomentEstimationTag>> }

\* class_string in ALIASES.keys(): string equality, letter case included.
IsAlias(class_string) == \E a \in ALIASES : a[1] = class_string

\* ALIASES[class_string]
AliasTarget(class_string) == (CHOOSE a \in ALIASES : a[1] = class_string)[2]

\* An alias table that is looked up on the lower-cased tag.
ResolveAliasFolded(class_string) ==
    IF IsAlias(Lower(class_string)) THEN AliasTarget(Lower(class_string))
    ELSE class_string

\* if class_string in ALIASES.keys(): class_string = ALIASES[class_string]
ResolveAlias(class_string) ==
    IF IsAlias(class_string) THEN AliasTarget(class_string) ELSE class_string

\* The solver classes of the package, by canonical tag.
SolverClasses ==
    { SteepestGradientDescentTag, BroydenFletcherGoldfarbShannoTag,
      LimitedMemoryBfgsTag, AdaptiveMomentEstimationTag,
      WaypointGradientDescentTag }

\* _import_class_from_string(__name__, class_string): the class registered
\* under the tag, letter case ignored; an unknown tag is an error.
ImportClassFromString(class_string) ==
    IF Lower(class_string) \in SolverClasses
    THEN [fn |-> "import_from_string", outcome |-> "return",
          class |-> Lower(class_string)]
    ELSE [fn |-> "import_from_string", outcome |-> "ImportError"]

\* import_from_string(class_string, valid_strings)
ImportFromStringResult(class_string, valid_strings) ==
    LET resolved == ResolveAlias(class_string)
    IN  IF ~valid_strings.is_none /\ resolved \notin valid_strings.strings
        THEN [fn |-> "import_from_string", outcome |-> "ValueError"]
        ELSE ImportClassFromString(resolved)

\* The tags a caller writes: every alias and canonical tag in lower case,
\* upper case and capitalised, and two tags that name nothing.
TagSpellings(tag) == {tag, Upper(tag), Capitalize(tag)}
Tags ==
    UNION { TagSpellings(t) : t \in {a[1] : a \in ALIASES} \cup SolverClasses
                                      \cup {Momentum, <<>>} }

\* valid_strings: None, or a list of canonical tags.
NoValidStrings == [is_none |-> TRUE, strings |-> {}]
ValidStringsList(strings) == [is_none |-> FALSE, strings |-> strings]
ValidStrings ==
    { NoValidStrings, ValidStringsList({}), ValidStringsList(SolverClasses),
      ValidStringsList({SteepestGradientDescentTag, LimitedMemoryBfgsTag}),
      ValidStringsList(SolverClasses \ {SteepestGradientDescentTag}) }

RegistryInit ==
    /\ SolverIdle
    /\ call \in [class_string : Tags, valid_strings : ValidStrings]
    /\ result = NoCall

ImportFromString ==
    /\ pc = "idle" /\ result.fn = "none"
    /\ result' = ImportFromStringResult(call.class_string, call.valid_strings)
    /\ UNCHANGED <<call, solverVars>>

RegistryNext == ImportFromString

RegistrySpec == RegistryInit /\ [][RegistryNext]_vars

\* ------------------------------------------------ properties of the solver

IsBatch(k) == hist[k].ev = "batch"
IsCallback(k) == hist[k].ev = "callback"
BatchEvents == {k \in 1..Len(hist) : IsBatch(k)}
CallbackEvents == {k \in 1..Len(hist) : IsCallback(k)}
StopEvents == {k \in CallbackEvents : hist[k].ret}

\* The runs of which at least one batch was processed.
RunsExecuted == {hist[k].run : k \in BatchEvents}

\* The number of batches of a run over n samples.
BatchCount(bs, n) ==
    LET b == EffectiveBatchSize(bs, n) IN (n + b - 1) \div b

\* The parameters committed before event k: those of the last batch before
\* it, or the parameters solve was called with.
CommittedBefore(k) ==
    LET earlier == {j \in BatchEvents : j < k}
    IN  IF earlier = {} THEN InitialParams
        ELSE hist[CHOOSE j \in earlier : \A l \in earlier : l <= j].committed

\* A callback invoked before run r starts returned a stop signal.
StoppedBefore(r) == \E k \in StopEvents : hist[k].at_run < r

C1_Safety ==
    \* a stop signal is the last thing that happens: solve has returned
    /\ \A k \in StopEvents : k = Len(hist) /\ pc = "returned"
    \* only runs below max_runs, and none after a stop signal, are started
    /\ \A r \in RunsExecuted : r < self.max_runs /\ ~StoppedBefore(r)
    /\ pc = "returned" =>
         \* run r was executed, with all its batches, iff r < max_runs and no
         \* earlier callback signalled stop
         /\ \A r \in 0..MaxRuns :
              (r \in RunsExecuted) <=> (r < self.max_runs /\ ~StoppedBefore(r))
         /\ \A r \in RunsExecuted :
              Cardinality({k \in BatchEvents : hist[k].run = r})
                = BatchCount(self.batch_size, n_samples)
         /\ StopEvents = {} => RunsExecuted = 0..(self.max_runs - 1)
         \* the model holds what the last processed batch committed
         /\ model.params = CommittedBefore(Len(hist) + 1)

\* solve has a next step wherever it has not returned.
C1_NeverStuck ==
    CASE pc = "start" -> TRUE
      [] pc = "run_loop" -> RunLoopContinues => Permutations0(n_samples) # {}
      [] pc = "batch_loop" -> RunFinished \/ i_batch + 1 \in DOMAIN batches
      [] OTHER -> pc = "returned"

\* What solve has left to do: a natural number that every step lowers.
C1_Measure ==
    (self.max_runs - i_run) * (2 * n_samples + 4)
      + (CASE pc = "start" -> 2
           [] pc = "run_loop" -> 1
           [] pc = "batch_loop" -> 2 * (Len(batches) - i_batch) + 3
           [] OTHER -> 0)

IsLastBatchOfRun(k) == IsBatch(k) /\ hist[k].batch = hist[k].n_batches - 1

RECURSIVE Concat(_)
Concat(seqs) == IF seqs = <<>> THEN <<>> ELSE Head(seqs) \o Concat(Tail(seqs))

\* C4: in every run the batches partition the shuffled sample indices: every
\* index 0..n-1 is in exactly one batch, the batches are consecutive slices of
\* the shuffled order, every batch but the last has batch_size indices and the
\* last has 1..batch_size; with batch_size <= 0 or >= n there is one batch,
\* the full dataset.
C4_BatchesPartitionShuffledIndices ==
    pc = "batch_loop" =>
      LET n == n_samples
          bs == self.batch_size
          nb == Len(batches)
      IN  /\ Len(shuffled_indices) = n
          /\ \A x \in 0..(n - 1) :
               Cardinality({<<b, j>> \in (1..nb) \X (1..n) :
                              j <= Len(batches[b]) /\ batches[b][j] = x}) = 1
          /\ Concat(batches) = shuffled_indices
          /\ nb >= 1
          /\ bs > 0 =>
               /\ \A b \in 1..(nb - 1) : Len(batches[b]) = bs
               /\ Len(batches[nb]) \in 1..bs
          /\ (bs <= 0 \/ bs >= n) =>
               /\ nb = 1
               /\ batches[1] = shuffled_indices
               /\ Len(batches[1]) = n

\* A run whose last batch is smaller than the others.
C4_Witness ==
    /\ pc = "batch_loop"
    /\ Len(batches) >= 2
    /\ Len(batches[Len(batches)]) < Len(batches[1])

\* base * max_runs / (max_runs + i)
ClosedFormStepSize(base, i, max_runs) ==
    Rat(base[1] * max_runs, base[2] * (max_runs + i))

\* C10: the step size applied in run i is base_step_size / (1 + i/max_runs)
\* = base_step_size * max_runs / (max_runs + i): the same for every batch of
\* the run, base_step_size in run 0, strictly decreasing from run to run for a
\* positive base step size and strictly above base_step_size / 2.
C10_StepSizeAnnealing ==
    \A k \in BatchEvents :
        LET e == hist[k]
            base == self.step_size
        IN  /\ e.step_size = ClosedFormStepSize(base, e.run, self.max_runs)
            /\ e.run = 0 => e.step_size = base
            /\ \A j \in BatchEvents :
                 hist[j].run = e.run => hist[j].step_size = e.step_size
            /\ RLess(RInt(0), base) =>
                 /\ RLess(RDiv(base, RInt(2)), e.step_size)
                 /\ \A j \in BatchEvents :
                      hist[j].run < e.run => RLess(e.step_size, hist[j].step_size)

\* A batch of a later run was processed with a positive base step size.
C10_Witness ==
    \E k \in BatchEvents : hist[k].run >= 1 /\ RLess(RInt(0), self.step_size)

\* ------------------------------- properties of the distance and objective

Samples == 1..Len(call.data)
Prototypes == 1..Len(call.model.prototypes_)
FeatureIndices == 1..Len(call.data[1])

\* The reference formula: (x - w)^T Lambda (x - w) with Lambda = Omega^T Omega.
QuadraticForm(x, w, lambda_matrix) ==
    RSum([a \in 1..Len(x) |->
            RSum([b \in 1..Len(x) |->
                    RMul(RSub(x[a], w[a]),
                         RMul(lambda_matrix[a][b], RSub(x[b], w[b])))])])

HasNoNaN(data) ==
    \A i \in 1..Len(data) : \A k \in 1..Len(data[i]) : ~IsNaN(data[i][k])

\* C5 (as stated): for samples without missing features, distance(data,
\* model) is an n_samples x n_prototypes matrix whose entry [i, j] is
\* (x_i - w_j)^T Lambda (x_i - w_j) with Lambda = Omega^T Omega.
C5_DistanceIsQuadraticForm ==
    (result.fn = "distance" /\ HasNoNaN(call.data)) =>
        /\ Len(result.value) = Len(call.data)
        /\ \A i \in Samples :
             /\ Len(result.value[i]) = Len(call.model.prototypes_)
             /\ \A j \in Prototypes :
                  result.value[i][j] =
                      QuadraticForm(call.data[i], call.model.prototypes_[j],
                                    LambdaMatrix(call.model.omega_))

\* What the code returns instead: every entry is the square of the
\* reference formula.
C5_DistanceIsSquareOfQuadraticForm ==
    (result.fn = "distance" /\ HasNoNaN(call.data)) =>
        \A i \in Samples : \A j \in Prototypes :
            LET q == QuadraticForm(call.data[i], call.model.prototypes_[j],
                                   LambdaMatrix(call.model.omega_))
            IN  result.value[i][j] = RMul(q, q)

\* The sample with feature k replaced by the prototype's value.
WithFeatureOf(sample, k, prototype) == [sample EXCEPT ![k] = prototype[k]]

AllMissing(sample) == \A k \in 1..Len(sample) : IsNaN(sample[k])

\* C6: a missing feature contributes zero difference: the distance (and the
\* gradient row) of a sample with a missing feature equals that of the same
\* sample with the feature set to the prototype's value; a sample with all
\* features missing has distance 0 to every prototype and an all-zero
\* gradient row; no entry of either result is NaN.
C6_MissingFeatureContributesZero ==
    /\ result.fn = "distance" =>
         \A i \in Samples : \A j \in Prototypes :
            /\ ~IsNaN(result.value[i][j])
            /\ AllMissing(call.data[i]) => result.value[i][j] = RInt(0)
            /\ \A k \in FeatureIndices :
                 IsNaN(call.data[i][k]) =>
                    \A substituted \in
                          {Distance(<<WithFeatureOf(call.data[i], k,
                                                   call.model.prototypes_[j])>>,
                                    call.model)} :
                       result.value[i][j] = substituted[1][j]
    /\ result.fn = "distance_gradient" =>
         \A i \in Samples :
            /\ \A c \in 1..Len(result.value[i]) : ~IsNaN(result.value[i][c])
            /\ AllMissing(call.data[i]) =>
                 \A c \in 1..Len(result.value[i]) : result.value[i][c] = RInt(0)
            /\ \A k \in FeatureIndices :
                 IsNaN(call.data[i][k]) =>
                    \A substituted \in
                          {DistanceGradient(
                              <<WithFeatureOf(call.data[i], k,
                                    call.model.prototypes_[result.i_prototype + 1])>>,
                              call.model, result.i_prototype)} :
                       result.value[i] = substituted[1]

\* A sample with exactly one of two features missing, at a nonzero distance
\* from a prototype.
C6_Witness ==
    /\ result.fn = "distance"
    /\ \E i \in Samples :
         /\ Cardinality({k \in FeatureIndices : IsNaN(call.data[i][k])}) = 1
         /\ Cardinality(FeatureIndices) = 2
         /\ \E j \in Prototypes : result.value[i][j] # RInt(0)

\* The coordinates (from 1) of prototype p (from 0) in the variables vector.
SliceOf(p) ==
    (p * Len(call.model.prototypes_[1]) + 1)..((p + 1) * Len(call.model.prototypes_[1]))

\* The prototypes that are the same-winner or the diff-winner of a sample.
Winners(cd) ==
    {cd.i_dist_same[i] : i \in 1..Len(cd.i_dist_same)}
        \cup {cd.i_dist_diff[i] : i \in 1..Len(cd.i_dist_diff)}

\* C7: after a gradient call of the objective, the slice of every prototype
\* that is no sample's same-winner or diff-winner is zero in the returned
\* buffer; the gradient of the distance with respect to prototype p is zero
\* in the slice of every other prototype.
C7_ZeroContribution ==
    /\ result.fn = "objective_gradient" =>
         \A p \in 0..(Len(call.model.prototypes_) - 1) :
            p \notin Winners(ComputeDistance(call.data, call.labels, call.model))
               => \A c \in SliceOf(p) : result.value[c] = RInt(0)
    /\ result.fn = "distance_gradient" =>
         \A q \in 0..(Len(call.model.prototypes_) - 1) :
            q # result.i_prototype =>
               \A i \in Samples : \A c \in SliceOf(q) :
                  result.value[i][c] = RInt(0)

\* A gradient of the objective with a prototype that won no sample, next to
\* a winner whose slice is not zero.
C7_Witness ==
    /\ result.fn = "objective_gradient"
    /\ Len(call.model.prototypes_) = 3
    /\ \E p \in 0..2 :
         p \notin Winners(ComputeDistance(call.data, call.labels, call.model))
    /\ \E c \in 1..Size(call.model.prototypes_) : result.value[c] # RInt(0)

\* Every label of the batch is the label of a prototype, and every sample
\* has a prototype of a different label.
C8_Precondition ==
    \A i \in Samples :
       /\ \E j \in Prototypes : call.model.prototypes_labels_[j] = call.labels[i]
       /\ \E j \in Prototypes : call.model.prototypes_labels_[j] # call.labels[i]

\* C8: under the precondition, _compute_distance returns for every sample a
\* same-winner of the sample's label at the minimum distance over the
\* same-label prototypes and a diff-winner of another label at the minimum
\* distance over the different-label prototypes; the two differ, and
\* dist_same and dist_diff are the distances at those indices.
C8_WinnerAssignment ==
    (result.fn = "compute_distance" /\ C8_Precondition) =>
        LET pl == call.model.prototypes_labels_
        IN  \A d \in {Distance(call.data, call.model)} : \A i \in Samples :
               LET s == result.value.i_dist_same[i] + 1
                   t == result.value.i_dist_diff[i] + 1
               IN  /\ s \in Prototypes /\ pl[s] = call.labels[i]
                   /\ \A j \in Prototypes :
                        pl[j] = call.labels[i] => ~RLess(d[i][j], d[i][s])
                   /\ t \in Prototypes /\ pl[t] # call.labels[i]
                   /\ \A j \in Prototypes :
                        pl[j] # call.labels[i] => ~RLess(d[i][j], d[i][t])
                   /\ s # t
                   /\ result.value.dist_same[i] = d[i][s]
                   /\ result.value.dist_diff[i] = d[i][t]

\* A sample whose nearest prototype overall is not its same-winner.
C8_Witness ==
    /\ result.fn = "compute_distance"
    /\ C8_Precondition
    /\ \E d \in {Distance(call.data, call.model)} : \E i \in Samples :
         ArgMin(d[i]) # result.value.i_dist_same[i]

\* ------------------------------------------- properties of the registry

\* The class a tag selects when letter case is ignored and aliases are
\* resolved first; None when the tag is unknown or not valid.
SelectedIgnoringCase(class_string, valid_strings) ==
    LET canonical == Lower(ResolveAliasFolded(class_string))
    IN  IF canonical \in SolverClasses
           /\ (valid_strings.is_none \/ canonical \in valid_strings.strings)
        THEN canonical
        ELSE None

\* C9 (as stated): the tag is matched ignoring letter case, an alias in any
\* letter case resolves to the class of its canonical tag whenever that tag
\* is valid, and a tag unknown after alias resolution fails with an error.
C9_CaseInsensitiveSelection ==
    result.fn = "import_from_string" =>
        \A selected \in {SelectedIgnoringCase(call.class_string,
                                              call.valid_strings)} :
           IF selected = None
           THEN result.outcome \in {"ValueError", "ImportError"}
           ELSE result.outcome = "return" /\ result.class = selected

\* What the code does hold to: a tag written in lower case is selected as
\* stated, and no unknown or invalid tag ever returns a class.
C9_LowerCaseSelection ==
    result.fn = "import_from_string" =>
        /\ call.class_string = Lower(call.class_string)
             => C9_CaseInsensitiveSelection
        /\ result.outcome = "return" =>
             /\ result.class \in SolverClasses
             /\ ~call.valid_strings.is_none =>
                  ResolveAlias(call.class_string) \in call.valid_strings.strings

\* ------------------------------------------------ properties of the frame

\* A step of solve that appends a batch to the history.
BatchProcessed ==
    /\ Len(hist') = Len(hist) + 1
    /\ hist'[Len(hist')].ev = "batch"

\* C11: a call of the objective, of its gradient, of the distance or of the
\* distance's gradient leaves the model's prototypes and omega, the data and
\* the labels as they were; during solve the model's parameters change in
\* exactly the steps that process a batch, once per batch, to the parameters
\* that batch commits.
C11_FrameOfModelAndData ==
    [][ /\ result' # result => call' = call
        /\ model' # model <=> BatchProcessed
        /\ BatchProcessed =>
             model' = SetModelParams(model, hist'[Len(hist')].committed)
      ]_vars

\* A gradient of the objective computed on a batch with a missing feature,
\* the case in which the distance writes zeros in place.
C11_Witness ==
    /\ result.fn = "objective_gradient"
    /\ ~HasNoNaN(call.data)
    /\ Len(call.data) = 2

\* ------------------------------------- properties of the iteration index

\* The number of callback invocations before event k.
InvocationsBefore(k) == Cardinality({j \in CallbackEvents : j < k})

\* The index of the sequence 0, 0, 1, ...: 0 for the initial invocation and
\* for the one after the first run, then one more after every further run.
ExpectedNit(invocation) == IF invocation = 0 THEN 0 ELSE invocation - 1

\* The reports of the callback form the sequence 0, 0, 1, ...: the initial
\* invocation reports 0, the one after run i reports i, no report is lower
\* than an earlier one, the first two reports are equal, and a solve that is
\* never stopped reports max_runs + 1 times.
ReportedSequence ==
    /\ \A k \in CallbackEvents :
         /\ hist[k].state.nit = ExpectedNit(InvocationsBefore(k))
         /\ InvocationsBefore(k) = 0 <=> k = 1
         /\ k > 1 => hist[k].state.nit = hist[k - 1].run
         /\ \A j \in CallbackEvents :
              /\ j < k => hist[j].state.nit <= hist[k].state.nit
              /\ (InvocationsBefore(j) = 0 /\ InvocationsBefore(k) = 1)
                    => hist[j].state.nit = hist[k].state.nit
    /\ (pc = "returned" /\ self.callback # "none" /\ StopEvents = {})
          => Cardinality(CallbackEvents) = self.max_runs + 1

============================================================================
